---- MODULE Spec2Model ----
(***************************************************************************)
(* A model of csvkit-next (src/src/index.js): the character-level CSV      *)
(* parser, the serializer, and the row operations.                         *)
(*                                                                         *)
(* A JavaScript string is a sequence of one-character strings.  A          *)
(* JavaScript value is a tagged record (Str, Num, NaN, Null, Undef).  A    *)
(* JavaScript object is the sequence of its own properties in the order    *)
(* Object.keys reports them.                                               *)
(***************************************************************************)
EXTENDS Integers, Sequences, FiniteSets, TLC

VARIABLES
  pc,         \* position of the running call
  text,       \* parseCSV: text
  delimiter,  \* parseCSV / stringifyCSV: delimiter
  i,          \* parseCSV: loop index (0-based, as in the source)
  field,      \* parseCSV: field
  current,    \* parseCSV: current
  rows,       \* parseCSV: rows
  inQuotes,   \* parseCSV: inQuotes
  data,       \* the dataset handed to the running operation
  result,     \* the dataset the operation returned
  op,         \* the call that is running or has just returned
  error,      \* the error the call raised, "none" when it returned
  nops,       \* number of row operations applied so far
  evalExpr,   \* transform: evalExpr of each record, after the replacements
  issues      \* validate: the issues it returned

vars == <<pc, text, delimiter, i, field, current, rows, inQuotes,
          data, result, op, error, nops, evalExpr, issues>>

(***************************************************************************)
(* Bounds                                                                  *)
(***************************************************************************)
MaxLen == 4      \* longest enumerated input text of the tokenizer
MaxCells == 3    \* most cells (columns x records) of a serialized dataset
MaxOps == 2      \* most row operations applied one after the other
MaxN == 3        \* largest n handed to head and tail

(***************************************************************************)
(* Characters and strings                                                  *)
(***************************************************************************)
QUOTE == "\""
LF == "\n"
CR == "\r"
NoChar == ""     \* text[i] past the end of the string: undefined

EmptyStr == <<>>

CharAt(s, k) == IF k >= 0 /\ k < Len(s) THEN s[k + 1] ELSE NoChar

Includes(s, c) == \E k \in 1..Len(s) : s[k] = c

RECURSIVE Join(_, _)
Join(parts, sep) ==
  IF Len(parts) = 0 THEN EmptyStr
  ELSE IF Len(parts) = 1 THEN parts[1]
  ELSE parts[1] \o sep \o Join(Tail(parts), sep)

(***************************************************************************)
(* Values                                                                  *)
(***************************************************************************)
Str(s) == [t |-> "string", s |-> s, n |-> 0]
Num(n) == [t |-> "number", s |-> EmptyStr, n |-> n]
NaN == [t |-> "NaN", s |-> EmptyStr, n |-> 0]
Null == [t |-> "null", s |-> EmptyStr, n |-> 0]
Undef == [t |-> "undefined", s |-> EmptyStr, n |-> 0]

DigitChars == <<"0", "1", "2", "3", "4", "5", "6", "7", "8", "9">>
IsDigit(c) == \E d \in 1..10 : DigitChars[d] = c
DigitVal(c) == (CHOOSE d \in 1..10 : DigitChars[d] = c) - 1

RECURSIVE NatToString(_)
NatToString(n) ==
  IF n < 10 THEN <<DigitChars[n + 1]>>
  ELSE NatToString(n \div 10) \o <<DigitChars[(n % 10) + 1]>>

\* Number.prototype.toString for the integers the model computes with
NumToString(n) == IF n < 0 THEN <<"-">> \o NatToString(-n) ELSE NatToString(n)

\* String(v)
JSString(v) ==
  CASE v.t = "string" -> v.s
    [] v.t = "number" -> NumToString(v.n)
    [] v.t = "NaN" -> <<"N", "a", "N">>
    [] v.t = "null" -> <<"n", "u", "l", "l">>
    [] OTHER -> <<"u", "n", "d", "e", "f", "i", "n", "e", "d">>

(***************************************************************************)
(* Objects: own properties in Object.keys order (array-index keys first,   *)
(* ascending, then the other keys in insertion order)                      *)
(***************************************************************************)
RECURSIVE DigitsVal(_)
DigitsVal(s) ==
  IF Len(s) = 0 THEN 0
  ELSE 10 * DigitsVal(SubSeq(s, 1, Len(s) - 1)) + DigitVal(s[Len(s)])

IsArrayIndex(k) ==
  /\ Len(k) >= 1
  /\ \A j \in 1..Len(k) : IsDigit(k[j])
  /\ (Len(k) = 1 \/ k[1] # "0")

Keys(obj) == [j \in 1..Len(obj) |-> obj[j].k]

HasKey(obj, k) == \E j \in 1..Len(obj) : obj[j].k = k

\* obj[k]
ObjGet(obj, k) ==
  IF HasKey(obj, k) THEN obj[CHOOSE j \in 1..Len(obj) : obj[j].k = k].v
  ELSE Undef

\* obj[k] = v
ObjSet(obj, k, v) ==
  IF HasKey(obj, k)
  THEN [j \in 1..Len(obj) |-> IF obj[j].k = k THEN [k |-> k, v |-> v] ELSE obj[j]]
  ELSE IF IsArrayIndex(k)
  THEN LET before == Cardinality({j \in 1..Len(obj) :
                        IsArrayIndex(obj[j].k) /\ DigitsVal(obj[j].k) < DigitsVal(k)})
       IN SubSeq(obj, 1, before) \o <<[k |-> k, v |-> v]>>
            \o SubSeq(obj, before + 1, Len(obj))
  ELSE Append(obj, [k |-> k, v |-> v])

(***************************************************************************)
(* parseCSV                                                                *)
(***************************************************************************)
\* PushRow without the blank-row test
PushRow_KeepBlank(cur, rs) ==
  IF Len(cur) > 0 THEN Append(rs, cur) ELSE rs

\* if (current.length > 0 && current.some(c => c !== '')) rows.push(current)
PushRow(cur, rs) ==
  IF Len(cur) > 0 /\ \E j \in 1..Len(cur) : cur[j] # EmptyStr
  THEN Append(rs, cur)
  ELSE rs

\* QuotedStep without the doubled-quote case: every quote closes the field
QuotedStep_NoDoubled(s, char, next) ==
  IF char = QUOTE
  THEN [s EXCEPT !.inQuotes = FALSE]
  ELSE [s EXCEPT !.field = Append(@, char)]

\* the body of the loop while inQuotes holds
QuotedStep(s, char, next) ==
  IF char = QUOTE /\ next = QUOTE
  THEN [s EXCEPT !.field = Append(@, QUOTE), !.i = @ + 1]
  ELSE IF char = QUOTE
  THEN [s EXCEPT !.inQuotes = FALSE]
  ELSE [s EXCEPT !.field = Append(@, char)]

\* the body of the loop while inQuotes does not hold
UnquotedStep(s, char, next, d) ==
  IF char = QUOTE
  THEN [s EXCEPT !.inQuotes = TRUE]
  ELSE IF char = d
  THEN [s EXCEPT !.current = Append(@, s.field), !.field = EmptyStr]
  ELSE IF char = LF \/ (char = CR /\ next = LF)
  THEN [s EXCEPT !.i = IF char = CR THEN @ + 1 ELSE @,
                 !.rows = PushRow(Append(s.current, s.field), @),
                 !.current = <<>>,
                 !.field = EmptyStr]
  ELSE IF char # CR
  THEN [s EXCEPT !.field = Append(@, char)]
  ELSE s

\* one iteration of the for loop, the i++ included
ScanStep(s, txt, d) ==
  LET char == CharAt(txt, s.i)
      next == CharAt(txt, s.i + 1)
      t == IF s.inQuotes THEN QuotedStep(s, char, next)
           ELSE UnquotedStep(s, char, next, d)
  IN [t EXCEPT !.i = @ + 1]

ScanInit == [i |-> 0, field |-> EmptyStr, current |-> <<>>, rows |-> <<>>,
             inQuotes |-> FALSE]

RECURSIVE ScanAll(_, _, _)
ScanAll(s, txt, d) ==
  IF s.i < Len(txt) THEN ScanAll(ScanStep(s, txt, d), txt, d) ELSE s

\* "Handle last field/row"
LastRow(s) == PushRow(Append(s.current, s.field), s.rows)

\* RowToObject without the '' for a column the row has no field for
RECURSIVE RowToObject_NoPad(_, _, _, _)
RowToObject_NoPad(headers, row, j, obj) ==
  IF j > Len(headers) THEN obj
  ELSE RowToObject_NoPad(headers, row, j + 1,
         IF j <= Len(row) THEN ObjSet(obj, headers[j], Str(row[j])) ELSE obj)

\* obj[h] = row[i] || ''   for every header, in order
RECURSIVE RowToObject(_, _, _, _)
RowToObject(headers, row, j, obj) ==
  IF j > Len(headers) THEN obj
  ELSE RowToObject(headers, row, j + 1,
         ObjSet(obj, headers[j],
                Str(IF j <= Len(row) /\ row[j] # EmptyStr THEN row[j] ELSE EmptyStr)))

\* "Convert to objects using first row as headers"
ToRecords(rs) ==
  IF Len(rs) = 0 THEN <<>>
  ELSE [r \in 1..(Len(rs) - 1) |-> RowToObject(rs[1], rs[r + 1], 1, <<>>)]

ParseCSV(txt, d) == ToRecords(LastRow(ScanAll(ScanInit, txt, d)))

(***************************************************************************)
(* stringifyCSV                                                            *)
(***************************************************************************)
\* str.replace(/"/g, '""')
RECURSIVE DoubleQuotes(_)
DoubleQuotes(s) ==
  IF Len(s) = 0 THEN EmptyStr
  ELSE (IF s[1] = QUOTE THEN <<QUOTE, QUOTE>> ELSE <<s[1]>>) \o DoubleQuotes(Tail(s))

\* escapeField that wraps in quotes without doubling the quotes inside
escapeField_NoDoubling(val, d) ==
  LET str == IF val.t \in {"null", "undefined"} THEN EmptyStr ELSE JSString(val)
  IN IF Includes(str, d) \/ Includes(str, QUOTE) \/ Includes(str, LF)
     THEN <<QUOTE>> \o str \o <<QUOTE>>
     ELSE str

\* const escapeField = (val) => ...
escapeField(val, d) ==
  LET str == IF val.t \in {"null", "undefined"} THEN EmptyStr ELSE JSString(val)
  IN IF Includes(str, d) \/ Includes(str, QUOTE) \/ Includes(str, LF)
     THEN <<QUOTE>> \o DoubleQuotes(str) \o <<QUOTE>>
     ELSE str

StringifyCSV(ds, d) ==
  IF Len(ds) = 0 THEN EmptyStr
  ELSE LET headers == Keys(ds[1])
           headerLine == Join([j \in 1..Len(headers) |->
                                 escapeField(Str(headers[j]), d)], <<d>>)
           line(row) == Join([j \in 1..Len(headers) |->
                                 escapeField(ObjGet(row, headers[j]), d)], <<d>>)
       IN Join(<<headerLine>> \o [r \in 1..Len(ds) |-> line(ds[r])], <<LF>>)

(***************************************************************************)
(* Inputs                                                                  *)
(***************************************************************************)
Alphabet == {"a", ",", ";", QUOTE, LF, CR}
Delims == {",", ";"}

SeqsUpTo(S, n) == UNION {[1..m -> S] : m \in 0..n}

\* texts of the specification's worked examples
ExampleTexts ==
  { <<"a", ",", QUOTE, "b", ",", "c", QUOTE, ",", "d">>,
    <<QUOTE, "a", LF, "b", QUOTE>>,
    <<"a", ",", "b", LF, LF, "1", ",", "2", LF>>,
    <<QUOTE, "a", " ", QUOTE, QUOTE, "b", QUOTE, QUOTE, QUOTE>> }

\* texts whose data rows are shorter and longer than the header, and a header
\* with an integer-like name
MapperTexts ==
  { <<"a", ",", "b", LF, "1", LF, "1", ",", "2", ",", "3">>,
    <<"b", ",", "1", LF, "x">> }

Texts == SeqsUpTo(Alphabet, MaxLen) \cup ExampleTexts \cup MapperTexts

ColNames == <<<<"a">>, <<"b">>, <<"c">>, <<"d">>>>

\* the field values a serialized dataset holds
FieldValues ==
  { Str(EmptyStr), Str(<<"a">>), Str(<<",">>), Str(<<QUOTE>>), Str(<<LF>>),
    Str(<<CR>>), Str(<<"a", QUOTE, ";">>), Null, Undef }

\* the objects with keys hdr, in order, and values from V
ObjectsOver(hdr, V) ==
  { [j \in 1..Len(hdr) |-> [k |-> hdr[j], v |-> vals[j]]] : vals \in [1..Len(hdr) -> V] }

\* datasets of nrec records keyed by hdr; a record after the first may lack
\* the last column
DatasetsOf(hdr, nrec, V) ==
  LET full == ObjectsOver(hdr, V)
      short == ObjectsOver(SubSeq(hdr, 1, Len(hdr) - 1), V)
  IN { ds \in [1..nrec -> full \cup short] : ds[1] \in full }

Shapes == { sh \in (1..MaxCells) \X (1..MaxCells) : sh[1] * sh[2] <= MaxCells }

Datasets ==
  UNION { DatasetsOf(SubSeq(ColNames, 1, sh[1]), sh[2], FieldValues) : sh \in Shapes }

\* validate's schema argument: null, or { required, types }
NoSchema == [given |-> FALSE, required |-> <<>>, types |-> <<>>]

Schema(required, types) == [given |-> TRUE, required |-> required, types |-> types]

NoArgs(name) ==
  [name |-> name, column |-> EmptyStr, operator |-> EmptyStr, value |-> EmptyStr,
   expression |-> EmptyStr, n |-> 0, other |-> <<>>, schema |-> NoSchema]

(***************************************************************************)
(* The parser run step by step, alone and after the serializer             *)
(***************************************************************************)
ScanVarsInit ==
  /\ i = 0
  /\ field = EmptyStr
  /\ current = <<>>
  /\ rows = <<>>
  /\ inQuotes = FALSE

InitParse ==
  /\ pc = "scan"
  /\ op = NoArgs("parseCSV")
  /\ text \in Texts
  /\ delimiter \in Delims
  /\ data = <<>>
  /\ ScanVarsInit
  /\ result = <<>>
  /\ error = "none"
  /\ nops = 0
  /\ evalExpr = <<>>
  /\ issues = <<>>

InitRoundTrip ==
  /\ pc = "stringify"
  /\ op = NoArgs("stringifyCSV")
  /\ data \in Datasets
  /\ delimiter \in Delims
  /\ text = EmptyStr
  /\ ScanVarsInit
  /\ result = <<>>
  /\ error = "none"
  /\ nops = 0
  /\ evalExpr = <<>>
  /\ issues = <<>>

Init == InitParse \/ InitRoundTrip

\* stringifyCSV(data, delimiter), whose output is then parsed
Stringify ==
  /\ pc = "stringify"
  /\ text' = StringifyCSV(data, delimiter)
  /\ pc' = "scan"
  /\ UNCHANGED <<delimiter, i, field, current, rows, inQuotes, data, result, op,
                 error, nops, evalExpr, issues>>

\* one iteration of parseCSV's loop
Scan ==
  /\ pc = "scan"
  /\ i < Len(text)
  /\ LET s == ScanStep([i |-> i, field |-> field, current |-> current,
                        rows |-> rows, inQuotes |-> inQuotes], text, delimiter)
     IN /\ i' = s.i
        /\ field' = s.field
        /\ current' = s.current
        /\ rows' = s.rows
        /\ inQuotes' = s.inQuotes
  /\ UNCHANGED <<pc, text, delimiter, data, result, op, error, nops, evalExpr,
                 issues>>

\* the loop has ended: the last field and row
Finish ==
  /\ pc = "scan"
  /\ i >= Len(text)
  /\ current' = Append(current, field)
  /\ rows' = PushRow(Append(current, field), rows)
  /\ pc' = "map"
  /\ UNCHANGED <<text, delimiter, i, field, inQuotes, data, result, op, error, nops,
                 evalExpr, issues>>

\* rows to records; parseCSV returns
MapRecords ==
  /\ pc = "map"
  /\ result' = ToRecords(rows)
  /\ pc' = "done"
  /\ UNCHANGED <<text, delimiter, i, field, current, rows, inQuotes, data, op,
                 error, nops, evalExpr, issues>>

Next == Stringify \/ Scan \/ Finish \/ MapRecords

Spec == Init /\ [][Next]_vars

(***************************************************************************)
(* Properties of the parser and the serializer                             *)
(***************************************************************************)
IsStringifyRun == op.name = "stringifyCSV"

AllStrings(ds) ==
  \A r \in 1..Len(ds) : \A j \in 1..Len(ds[r]) : ds[r][j].v.t = "string"

SameHeader(ds) == \A r \in 1..Len(ds) : Keys(ds[r]) = Keys(ds[1])

\* C1: parsing the serialization of a dataset of at least one record, all
\* records keyed by the same header and all values strings, gives back the
\* dataset, for every delimiter.
C1_RoundTrip ==
  (pc = "done" /\ IsStringifyRun /\ Len(data) >= 1 /\ AllStrings(data)
     /\ SameHeader(data))
  => result = data

\* C2: inside a quoted field a doubled quote appends one quote and stays in
\* quoted mode, a single quote leaves quoted mode and appends nothing, and any
\* other character (delimiter, line terminator) is appended; no field or row
\* is closed.  The worked examples tokenize as stated.
C2_QuotedScan ==
  (pc = "scan" /\ i < Len(text) /\ inQuotes)
  => LET char == CharAt(text, i)
         next == CharAt(text, i + 1)
     IN /\ (char = QUOTE /\ next = QUOTE)
             => (field' = field \o <<QUOTE>> /\ inQuotes' /\ i' = i + 2)
        /\ (char = QUOTE /\ next # QUOTE)
             => (field' = field /\ ~inQuotes' /\ i' = i + 1)
        /\ (char # QUOTE)
             => (field' = field \o <<char>> /\ inQuotes' /\ i' = i + 1)
        /\ current' = current
        /\ rows' = rows

C2_Examples ==
  (pc = "map" /\ delimiter = ",")
  => /\ (text = <<"a", ",", QUOTE, "b", ",", "c", QUOTE, ",", "d">>
           => rows = << <<<<"a">>, <<"b", ",", "c">>, <<"d">>>> >>)
     /\ (text = <<QUOTE, "a", LF, "b", QUOTE>>
           => rows = << << <<"a", LF, "b">> >> >>)
     /\ (text = <<QUOTE, "a", " ", QUOTE, QUOTE, "b", QUOTE, QUOTE, QUOTE>>
           => rows = << << <<"a", " ", QUOTE, "b", QUOTE>> >> >>)

C2_QuotedMode == [][C2_QuotedScan]_vars /\ []C2_Examples

C2_Witness ==
  /\ pc = "scan"
  /\ inQuotes
  /\ Includes(field, QUOTE)
  /\ Includes(field, delimiter)

\* C3: a row closed by a line terminator or by the end of the input is
\* emitted exactly when one of its fields is not the empty string, rows are
\* emitted nowhere else, and so no emitted row is blank.
SomeFieldNonEmpty(row) == \E j \in 1..Len(row) : Len(row[j]) > 0

ClosesRow ==
  \/ i >= Len(text)
  \/ /\ ~inQuotes
     /\ \/ CharAt(text, i) = LF
        \/ CharAt(text, i) = CR /\ CharAt(text, i + 1) = LF

C3_Emit ==
  (pc = "scan")
  => IF ClosesRow
     THEN LET closed == current \o <<field>>
          IN rows' = IF SomeFieldNonEmpty(closed) THEN rows \o <<closed>> ELSE rows
     ELSE rows' = rows

C3_NoBlankRow ==
  /\ \A r \in 1..Len(rows) : SomeFieldNonEmpty(rows[r])
  /\ (pc = "done" /\ delimiter = ","
        /\ text = <<"a", ",", "b", LF, LF, "1", ",", "2", LF>>)
     => result = << <<[k |-> <<"a">>, v |-> Str(<<"1">>)],
                      [k |-> <<"b">>, v |-> Str(<<"2">>)]>> >>

C3_RowEmission == [][C3_Emit]_vars /\ []C3_NoBlankRow

C3_Witness ==
  /\ pc = "map"
  /\ op.name = "parseCSV"
  /\ Len(rows) = 1
  /\ ~Includes(text, QUOTE)
  /\ \E k \in 1..(Len(text) - 1) : text[k] = LF /\ text[k + 1] = LF

\* C4: a field is emitted wrapped in quotes, its quotes doubled, exactly
\* when it holds the delimiter, a quote or a newline, raw otherwise, and a
\* null or absent value as the empty string.
C4_Raw(v) == IF v.t = "string" THEN v.s ELSE EmptyStr

C4_Doubled(s) ==
  LET quotesBefore(k) == Cardinality({m \in 1..(k - 1) : s[m] = QUOTE})
      total == Len(s) + quotesBefore(Len(s) + 1)
      \* the source position that output position p comes from
      src(p) == CHOOSE k \in 1..Len(s) :
                  /\ k + quotesBefore(k) <= p
                  /\ p <= k + quotesBefore(k) + (IF s[k] = QUOTE THEN 1 ELSE 0)
  IN [p \in 1..total |-> s[src(p)]]

C4_Field(v, d) ==
  LET s == C4_Raw(v)
  IN IF \E k \in 1..Len(s) : s[k] \in {d, QUOTE, LF}
     THEN <<QUOTE>> \o C4_Doubled(s) \o <<QUOTE>>
     ELSE s

C4_Line(keys, row, d) ==
  Join([j \in 1..Len(keys) |-> C4_Field(ObjGet(row, keys[j]), d)], <<d>>)

C4_Escaping ==
  (IsStringifyRun /\ pc # "stringify")
  => text = Join(<<Join([j \in 1..Len(data[1]) |->
                           C4_Field(Str(data[1][j].k), delimiter)], <<delimiter>>)>>
                 \o [r \in 1..Len(data) |-> C4_Line(Keys(data[1]), data[r], delimiter)],
                 <<LF>>)

C4_Witness ==
  /\ IsStringifyRun
  /\ pc = "scan"
  /\ i = 0
  /\ Len(data) = 2
  /\ data[1][1].v = Str(<<"a", QUOTE, ";">>)
  /\ Len(data[2]) = 0
  /\ text = <<"a", LF, QUOTE, "a", QUOTE, QUOTE, ";", QUOTE, LF>>

(***************************************************************************)
(* JavaScript primitives the row operations use                            *)
(***************************************************************************)
LowerChars == <<"a", "b", "c", "d", "e", "f", "g", "h", "i", "j", "k", "l", "m",
                "n", "o", "p", "q", "r", "s", "t", "u", "v", "w", "x", "y", "z">>
UpperChars == <<"A", "B", "C", "D", "E", "F", "G", "H", "I", "J", "K", "L", "M",
                "N", "O", "P", "Q", "R", "S", "T", "U", "V", "W", "X", "Y", "Z">>

IsLetter(c) == \E j \in 1..26 : LowerChars[j] = c \/ UpperChars[j] = c

\* \w
IsWordChar(c) == IsLetter(c) \/ IsDigit(c) \/ c = "_"

\* \s, for the white space the model's inputs hold
IsSpace(c) == c = " "

ToLowerChar(c) ==
  IF \E j \in 1..26 : UpperChars[j] = c
  THEN LowerChars[CHOOSE j \in 1..26 : UpperChars[j] = c]
  ELSE c

\* String.prototype.toLowerCase
ToLowerCase(s) == [j \in 1..Len(s) |-> ToLowerChar(s[j])]

StartsWith(s, t) == Len(t) <= Len(s) /\ SubSeq(s, 1, Len(t)) = t

EndsWith(s, t) == Len(t) <= Len(s) /\ SubSeq(s, Len(s) - Len(t) + 1, Len(s)) = t

\* String.prototype.includes with a string argument
Contains(s, t) ==
  \E k \in 0..(Len(s) - Len(t)) : SubSeq(s, k + 1, k + Len(t)) = t

\* the length of the longest prefix of s made of digits
RECURSIVE DigitPrefixLen(_)
DigitPrefixLen(s) ==
  IF Len(s) > 0 /\ IsDigit(s[1]) THEN 1 + DigitPrefixLen(Tail(s)) ELSE 0

RECURSIVE TrimStart(_)
TrimStart(s) == IF Len(s) > 0 /\ IsSpace(s[1]) THEN TrimStart(Tail(s)) ELSE s

\* parseFloat(v): leading white space, an optional sign, then the longest
\* prefix of digits; whatever follows is ignored.  (Fractions, exponents and
\* Infinity are not among the model's inputs.)
ParseFloat(v) ==
  LET s == TrimStart(JSString(v))
      signed == Len(s) > 0 /\ s[1] \in {"+", "-"}
      body == IF signed THEN Tail(s) ELSE s
      n == DigitPrefixLen(body)
  IN IF n = 0 THEN NaN
     ELSE Num((IF signed /\ s[1] = "-" THEN -1 ELSE 1) * DigitsVal(SubSeq(body, 1, n)))

IsNaN(v) == v.t = "NaN"

\* ToBoolean(v)
Truthy(v) ==
  CASE v.t = "string" -> Len(v.s) > 0
    [] v.t = "number" -> v.n # 0
    [] OTHER -> FALSE

\* a || ''
OrEmpty(v) == IF Truthy(v) THEN v ELSE Str(EmptyStr)

\* a === b
StrictEquals(a, b) == a.t # "NaN" /\ a = b

\* Array.prototype.slice(start, end)
Slice(arr, start, end) ==
  LET len == Len(arr)
      rel(k) == IF k < 0 THEN (IF len + k < 0 THEN 0 ELSE len + k)
                ELSE (IF k > len THEN len ELSE k)
  IN SubSeq(arr, rel(start) + 1, rel(end))

\* new RegExp(src) raises a SyntaxError: src opens a group it never closes
\* (the model's patterns hold no backslash and no character class)
RegExpThrows(src) == Includes(src, "(") /\ ~Includes(src, ")")

\* Array.prototype.filter as a sequence operator
RECURSIVE SelectRows(_, _)
SelectRows(ds, keep) ==
  IF Len(ds) = 0 THEN <<>>
  ELSE (IF keep[1] THEN <<ds[1]>> ELSE <<>>)
         \o SelectRows(Tail(ds), Tail(keep))

Returned(ds) == [error |-> "none", out |-> ds, evalExpr |-> <<>>, modelled |-> TRUE]
Thrown(e) == [error |-> e, out |-> <<>>, evalExpr |-> <<>>, modelled |-> TRUE]

(***************************************************************************)
(* filter                                                                  *)
(***************************************************************************)
\* the own properties of ops
OpNames ==
  { <<"e", "q">>, <<"n", "e">>, <<"g", "t">>, <<"l", "t">>, <<"g", "t", "e">>,
    <<"l", "t", "e">>, <<"c", "o", "n", "t", "a", "i", "n", "s">>,
    <<"s", "t", "a", "r", "t", "s", "w", "i", "t", "h">>,
    <<"e", "n", "d", "s", "w", "i", "t", "h">>, <<"r", "e", "g", "e", "x">>,
    <<"e", "m", "p", "t", "y">>, <<"n", "o", "t", "e", "m", "p", "t", "y">> }

\* what ops[name] finds: an own property, or a property ops inherits from
\* Object.prototype (of those, constructor and __proto__ are all lower case),
\* or undefined
OpsLookup(name) ==
  IF name \in OpNames THEN "own"
  ELSE IF name = <<"c", "o", "n", "s", "t", "r", "u", "c", "t", "o", "r">> THEN "Object"
  ELSE IF name = <<"_", "_", "p", "r", "o", "t", "o", "_", "_">> THEN "Object.prototype"
  ELSE "undefined"

\* the twelve predicates; a is row[column], b is value
OpHolds(name, a, b) ==
  LET fa == ParseFloat(a)
      fb == ParseFloat(b)
      bothNumbers == ~IsNaN(fa) /\ ~IsNaN(fb)
      la == ToLowerCase(JSString(a))
      lb == ToLowerCase(JSString(b))
  IN CASE name = <<"e", "q">> -> StrictEquals(a, b)
       [] name = <<"n", "e">> -> ~StrictEquals(a, b)
       [] name = <<"g", "t">> -> bothNumbers /\ fa.n > fb.n
       [] name = <<"l", "t">> -> bothNumbers /\ fa.n < fb.n
       [] name = <<"g", "t", "e">> -> bothNumbers /\ fa.n >= fb.n
       [] name = <<"l", "t", "e">> -> bothNumbers /\ fa.n <= fb.n
       [] name = <<"c", "o", "n", "t", "a", "i", "n", "s">> -> Contains(la, lb)
       [] name = <<"s", "t", "a", "r", "t", "s", "w", "i", "t", "h">> -> StartsWith(la, lb)
       [] name = <<"e", "n", "d", "s", "w", "i", "t", "h">> -> EndsWith(la, lb)
       \* a pattern of word characters matches where it occurs, case ignored
       [] name = <<"r", "e", "g", "e", "x">> -> Contains(la, lb)
       [] name = <<"e", "m", "p", "t", "y">> -> ~Truthy(a)
       [] name = <<"n", "o", "t", "e", "m", "p", "t", "y">> -> Truthy(a)

FilterCall(ds, column, operator, value) ==
  LET name == ToLowerCase(operator)
      found == OpsLookup(name)
  IN IF found = "undefined" THEN Thrown("UnknownOperator")
     ELSE IF Len(ds) = 0 THEN Returned(<<>>)
     ELSE IF found = "Object" THEN Returned(ds)
     ELSE IF found = "Object.prototype" THEN Thrown("TypeError")
     ELSE IF name = <<"r", "e", "g", "e", "x">> /\ RegExpThrows(value.s)
     THEN Thrown("SyntaxError")
     ELSE Returned(SelectRows(ds,
            [r \in 1..Len(ds) |-> OpHolds(name, ObjGet(ds[r], column), value)]))

(***************************************************************************)
(* head, tail, merge                                                       *)
(***************************************************************************)
HeadCall(ds, n) == Slice(ds, 0, n)

TailCall(ds, n) == Slice(ds, -n, Len(ds))

\* [...new Set(keys)]
RECURSIVE Dedup(_)
Dedup(keys) ==
  IF Len(keys) = 0 THEN <<>>
  ELSE LET front == Dedup(SubSeq(keys, 1, Len(keys) - 1))
           last == keys[Len(keys)]
       IN IF \E j \in 1..Len(front) : front[j] = last THEN front
          ELSE Append(front, last)

\* the normalize closure of merge
RECURSIVE Normalize(_, _, _, _)
Normalize(allHeaders, row, j, newRow) ==
  IF j > Len(allHeaders) THEN newRow
  ELSE Normalize(allHeaders, row, j + 1,
         ObjSet(newRow, allHeaders[j], OrEmpty(ObjGet(row, allHeaders[j]))))

MergeCall(data1, data2) ==
  LET headers1 == IF Len(data1) > 0 THEN Keys(data1[1]) ELSE <<>>
      headers2 == IF Len(data2) > 0 THEN Keys(data2[1]) ELSE <<>>
      allHeaders == Dedup(headers1 \o headers2)
  IN [r \in 1..Len(data1) |-> Normalize(allHeaders, data1[r], 1, <<>>)]
       \o [r \in 1..Len(data2) |-> Normalize(allHeaders, data2[r], 1, <<>>)]

(***************************************************************************)
(* transform                                                               *)
(***************************************************************************)
RECURSIVE WordPrefixLen(_)
WordPrefixLen(s) ==
  IF Len(s) > 0 /\ IsWordChar(s[1]) THEN 1 + WordPrefixLen(Tail(s)) ELSE 0

RECURSIVE SpacePrefixLen(_)
SpacePrefixLen(s) ==
  IF Len(s) > 0 /\ IsSpace(s[1]) THEN 1 + SpacePrefixLen(Tail(s)) ELSE 0

Drop(s, n) == SubSeq(s, n + 1, Len(s))

\* expression.match(/^(\w+)\s*=\s*(.+)$/): the word, the equals sign, and a
\* body of at least one character, none a line terminator.  When only white
\* space follows the equals sign the body is its last character.
MatchExpression(expression) ==
  LET w == WordPrefixLen(expression)
      afterWord == Drop(expression, w)
      afterSp == Drop(afterWord, SpacePrefixLen(afterWord))
      afterEq == Drop(afterSp, 1)
      sp == SpacePrefixLen(afterEq)
      body == IF sp = Len(afterEq) /\ sp > 0 THEN Drop(afterEq, sp - 1)
              ELSE Drop(afterEq, sp)
      ok == /\ w >= 1
            /\ Len(afterSp) > 0
            /\ afterSp[1] = "="
            /\ Len(body) > 0
            /\ ~Includes(afterEq, LF)
            /\ ~Includes(afterEq, CR)
  IN [ok |-> ok,
      newCol |-> SubSeq(expression, 1, w),
      expr |-> IF ok THEN body ELSE EmptyStr]

\* const replacement = isNaN(numVal) ? `"${val}"` : numVal, as the string
\* String.prototype.replace inserts
Replacement(val) ==
  LET numVal == ParseFloat(val)
  IN IF IsNaN(numVal) THEN <<QUOTE>> \o JSString(val) \o <<QUOTE>>
     ELSE NumToString(numVal.n)

\* \b at the gap before position p of s (1-based)
WordBoundary(s, p) ==
  LET before == p > 1 /\ p - 1 <= Len(s) /\ IsWordChar(s[p - 1])
      after == p >= 1 /\ p <= Len(s) /\ IsWordChar(s[p])
  IN before # after

\* s.replace(new RegExp(`\\b${col}\\b`, 'g'), repl) from position p on, for a
\* col that holds no pattern syntax and a repl that holds no $
RECURSIVE ReplaceFrom(_, _, _, _)
ReplaceFrom(s, p, col, repl) ==
  IF p > Len(s) + 1 THEN EmptyStr
  ELSE LET len == Len(col)
           here == IF p <= Len(s) THEN <<s[p]>> ELSE EmptyStr
           matches == /\ p + len - 1 <= Len(s)
                      /\ SubSeq(s, p, p + len - 1) = col
                      /\ WordBoundary(s, p)
                      /\ WordBoundary(s, p + len)
       IN IF matches /\ len > 0 THEN repl \o ReplaceFrom(s, p + len, col, repl)
          ELSE IF matches THEN repl \o here \o ReplaceFrom(s, p + 1, col, repl)
          ELSE here \o ReplaceFrom(s, p + 1, col, repl)

\* Object.keys(row).forEach(col => ...), from the j-th key on
RECURSIVE ReplaceColumns(_, _, _)
ReplaceColumns(row, j, expr) ==
  IF j > Len(row) THEN [error |-> "none", text |-> expr]
  ELSE IF RegExpThrows(row[j].k) THEN [error |-> "SyntaxError", text |-> expr]
  ELSE ReplaceColumns(row, j + 1,
         ReplaceFrom(expr, 1, row[j].k, Replacement(row[j].v)))

(* eval ********************************************************************)
(* The evaluated text is cut into tokens.  The outcome is a value for a    *)
(* text of no token, of one operand, or of two operands around + - *; it   *)
(* is a raised error for a text JavaScript cannot parse, whatever else it  *)
(* holds, and for a reference to an unbound name; any other text is        *)
(* outside the model ("unmodelled") and transform is not applied to it.    *)
(***************************************************************************)
ReservedWords ==
  { <<"b", "r", "e", "a", "k">>, <<"c", "a", "s", "e">>,
    <<"c", "a", "t", "c", "h">>, <<"c", "l", "a", "s", "s">>,
    <<"c", "o", "n", "s", "t">>,
    <<"c", "o", "n", "t", "i", "n", "u", "e">>,
    <<"d", "e", "b", "u", "g", "g", "e", "r">>,
    <<"d", "e", "f", "a", "u", "l", "t">>,
    <<"d", "e", "l", "e", "t", "e">>, <<"d", "o">>, <<"e", "l", "s", "e">>,
    <<"e", "n", "u", "m">>, <<"e", "x", "p", "o", "r", "t">>,
    <<"e", "x", "t", "e", "n", "d", "s">>, <<"f", "a", "l", "s", "e">>,
    <<"f", "i", "n", "a", "l", "l", "y">>, <<"f", "o", "r">>,
    <<"f", "u", "n", "c", "t", "i", "o", "n">>, <<"i", "f">>,
    <<"i", "m", "p", "o", "r", "t">>, <<"i", "n">>,
    <<"i", "n", "s", "t", "a", "n", "c", "e", "o", "f">>,
    <<"n", "e", "w">>, <<"n", "u", "l", "l">>,
    <<"r", "e", "t", "u", "r", "n">>, <<"s", "u", "p", "e", "r">>,
    <<"s", "w", "i", "t", "c", "h">>, <<"t", "h", "i", "s">>,
    <<"t", "h", "r", "o", "w">>, <<"t", "r", "u", "e">>, <<"t", "r", "y">>,
    <<"t", "y", "p", "e", "o", "f">>, <<"v", "a", "r">>,
    <<"v", "o", "i", "d">>, <<"w", "h", "i", "l", "e">>,
    <<"w", "i", "t", "h">>, <<"y", "i", "e", "l", "d">>, <<"l", "e", "t">>,
    <<"s", "t", "a", "t", "i", "c">>, <<"a", "w", "a", "i", "t">>,
    <<"a", "s", "y", "n", "c">>, <<"o", "f">> }

\* names no scope of the eval call binds
UnboundNames == { <<"z", "z">> }

Token(type, s, n) == [type |-> type, s |-> s, n |-> n]

\* position of the first QUOTE of s at or after p, 0 when there is none
RECURSIVE NextQuote(_, _)
NextQuote(s, p) ==
  IF p > Len(s) THEN 0
  ELSE IF s[p] = QUOTE THEN p
  ELSE NextQuote(s, p + 1)

RECURSIVE Lex(_, _)
Lex(s, p) ==
  IF p > Len(s) THEN <<>>
  ELSE IF IsSpace(s[p]) THEN Lex(s, p + 1)
  ELSE IF IsDigit(s[p])
  THEN LET n == DigitPrefixLen(Drop(s, p - 1))
           after == CharAt(s, p + n - 1)
       IN IF IsLetter(after) \/ after = "_" THEN <<Token("bad", EmptyStr, 0)>>
          ELSE IF after = "." \/ (s[p] = "0" /\ n > 1)
          THEN <<Token("other", EmptyStr, 0)>>
          ELSE <<Token("num", EmptyStr, DigitsVal(SubSeq(s, p, p + n - 1)))>>
                 \o Lex(s, p + n)
  ELSE IF IsWordChar(s[p])
  THEN LET n == WordPrefixLen(Drop(s, p - 1))
           name == SubSeq(s, p, p + n - 1)
       IN IF name \in ReservedWords THEN <<Token("other", EmptyStr, 0)>>
          ELSE <<Token("id", name, 0)>> \o Lex(s, p + n)
  ELSE IF s[p] = QUOTE
  THEN LET q == NextQuote(s, p + 1)
           inner == SubSeq(s, p + 1, q - 1)
       IN IF q = 0 THEN <<Token("bad", EmptyStr, 0)>>
          ELSE IF Includes(inner, LF) \/ Includes(inner, CR)
          THEN <<Token("bad", EmptyStr, 0)>>
          ELSE IF Includes(inner, "\\") THEN <<Token("other", EmptyStr, 0)>>
          ELSE <<Token("str", inner, 0)>> \o Lex(s, q + 1)
  ELSE IF s[p] \in {"+", "-", "*"}
  THEN <<Token("op", <<s[p]>>, 0)>> \o Lex(s, p + 1)
  ELSE <<Token("other", EmptyStr, 0)>>

IsOperand(tok) == tok.type \in {"num", "str", "id"}

\* ToNumber(v), "unmodelled" for a string that may be a numeric literal other
\* than a signed run of digits
ToNumber(v) ==
  CASE v.t \in {"number", "NaN"} -> v
    [] v.t = "null" -> Num(0)
    [] v.t = "undefined" -> NaN
    [] OTHER ->
       LET s == TrimStart(v.s)
           signed == Len(s) > 0 /\ s[1] \in {"+", "-"}
           body == IF signed THEN Tail(s) ELSE s
       IN IF Len(s) = 0 THEN Num(0)
          ELSE IF Len(body) > 0 /\ DigitPrefixLen(body) = Len(body)
          THEN Num((IF signed /\ s[1] = "-" THEN -1 ELSE 1) * DigitsVal(body))
          ELSE NaN

\* the value of one operand token
Operand(tok) ==
  CASE tok.type = "num" -> [kind |-> "value", v |-> Num(tok.n)]
    [] tok.type = "str" -> [kind |-> "value", v |-> Str(tok.s)]
    [] tok.s = <<"u", "n", "d", "e", "f", "i", "n", "e", "d">> -> [kind |-> "value", v |-> Undef]
    [] tok.s = <<"N", "a", "N">> -> [kind |-> "value", v |-> NaN]
    [] tok.s \in UnboundNames -> [kind |-> "throw", v |-> Undef]
    [] OTHER -> [kind |-> "unmodelled", v |-> Undef]

\* l + r, l - r, l * r
Binary(o, l, r) ==
  IF o = "+" /\ (l.t = "string" \/ r.t = "string")
  THEN Str(JSString(l) \o JSString(r))
  ELSE LET a == ToNumber(l)
           b == ToNumber(r)
       IN IF IsNaN(a) \/ IsNaN(b) THEN NaN
          ELSE Num(CASE o = "+" -> a.n + b.n
                     [] o = "-" -> a.n - b.n
                     [] OTHER -> a.n * b.n)

\* a string operand of - or * that may be a numeric literal the model does
\* not convert: only digits, signs, points and exponent marks, or a radix
\* prefix, or Infinity
OutsideToNumber(v) ==
  /\ v.t = "string"
  /\ ToNumber(v) = NaN
  /\ LET s == v.s
     IN \/ \A k \in 1..Len(s) : IsDigit(s[k]) \/ s[k] \in {"+", "-", ".", "e", "E", " "}
        \/ \E k \in 1..(Len(s) - 1) : s[k] = "0" /\ ToLowerChar(s[k + 1]) \in {"x", "o", "b"}
        \/ Contains(s, <<"I", "n", "f", "i", "n", "i", "t", "y">>)

\* the outcome of evaluating the token sequence toks
EvalTokens(toks) ==
  IF Len(toks) = 0 THEN [kind |-> "value", v |-> Undef]
  ELSE IF toks[Len(toks)].type = "other" THEN [kind |-> "unmodelled", v |-> Undef]
  ELSE IF toks[Len(toks)].type = "bad" THEN [kind |-> "throw", v |-> Undef]
  ELSE IF \E k \in 1..(Len(toks) - 1) : IsOperand(toks[k]) /\ IsOperand(toks[k + 1])
  THEN [kind |-> "throw", v |-> Undef]
  ELSE IF toks[Len(toks)].type = "op" \/ (toks[1].type = "op" /\ toks[1].s = <<"*">>)
  THEN [kind |-> "throw", v |-> Undef]
  ELSE IF Len(toks) = 1 THEN Operand(toks[1])
  ELSE IF Len(toks) = 3 /\ toks[2].type = "op"
  THEN IF Operand(toks[1]).kind = "unmodelled" \/ Operand(toks[3]).kind = "unmodelled"
       THEN [kind |-> "unmodelled", v |-> Undef]
       ELSE IF Operand(toks[1]).kind = "throw" \/ Operand(toks[3]).kind = "throw"
       THEN [kind |-> "throw", v |-> Undef]
       ELSE IF toks[2].s # <<"+">>
                 /\ (OutsideToNumber(Operand(toks[1]).v)
                       \/ OutsideToNumber(Operand(toks[3]).v))
       THEN [kind |-> "unmodelled", v |-> Undef]
       ELSE [kind |-> "value",
             v |-> Binary(toks[2].s[1], Operand(toks[1]).v, Operand(toks[3]).v)]
  ELSE [kind |-> "unmodelled", v |-> Undef]

\* eval(code)
Eval(code) == EvalTokens(Lex(code, 1))

\* try { newRow[newCol] = eval(evalExpr) } catch (e) { newRow[newCol] = '' }
AssignEval(row, newCol, sub, ev) ==
  [error |-> sub.error,
   evalExpr |-> sub.text,
   modelled |-> sub.error # "none" \/ ev.kind # "unmodelled",
   newRow |-> ObjSet(row, newCol, IF ev.kind = "value" THEN ev.v ELSE Str(EmptyStr))]

EvalReplaced(row, newCol, sub) == AssignEval(row, newCol, sub, Eval(sub.text))

\* the body of data.map(row => ...): the replacements, eval in the try
\* block, the assignment of the new column
TransformRow(row, newCol, expr) ==
  EvalReplaced(row, newCol, ReplaceColumns(row, 1, expr))

\* what transform returns or raises, given the match m and the outcome rs of
\* each record; modelled tells that every evaluated text is inside the model
\* of eval
TransformOutcome(m, rs) ==
  IF ~m.ok
  THEN [error |-> "InvalidExpression", out |-> <<>>, evalExpr |-> <<>>,
        modelled |-> TRUE]
  ELSE IF \E r \in 1..Len(rs) : rs[r].error # "none"
  THEN [error |-> "SyntaxError", out |-> <<>>, evalExpr |-> <<>>, modelled |-> TRUE]
  ELSE [error |-> "none",
        out |-> [r \in 1..Len(rs) |-> rs[r].newRow],
        evalExpr |-> [r \in 1..Len(rs) |-> rs[r].evalExpr],
        modelled |-> \A r \in 1..Len(rs) : rs[r].modelled]

TransformMatched(ds, m) ==
  TransformOutcome(m, [r \in 1..Len(ds) |-> TransformRow(ds[r], m.newCol, m.expr)])

TransformCall(ds, expression) == TransformMatched(ds, MatchExpression(expression))

(***************************************************************************)
(* validate                                                                *)
(***************************************************************************)
Issue(row, message) == [row |-> row, message |-> message]

WhiteSpace == {" ", "\t", LF, CR}

\* !h || h.trim() === ''
BlankHeader(h) == \A k \in 1..Len(h) : h[k] \in WhiteSpace

\* headers.forEach((h, i) => ...), from the header at position j = i + 1 on
RECURSIVE HeaderIssues(_, _)
HeaderIssues(headers, j) ==
  IF j > Len(headers) THEN <<>>
  ELSE (IF BlankHeader(headers[j])
        THEN <<Issue(0,
            <<"E", "m", "p", "t", "y", " ", "h", "e", "a", "d", "e", "r", " ", "a",
              "t", " ", "c", "o", "l", "u", "m", "n", " ">> \o NatToString(j))>>
        ELSE <<>>)
         \o HeaderIssues(headers, j + 1)

\* data.forEach((row, i) => ...), from the record at position r = i + 1 on
RECURSIVE CountIssues(_, _, _)
CountIssues(ds, headers, r) ==
  IF r > Len(ds) THEN <<>>
  ELSE (IF Len(Keys(ds[r])) # Len(headers)
        THEN <<Issue(r + 1,
            <<"C", "o", "l", "u", "m", "n", " ", "c", "o", "u", "n", "t", " ", "m",
              "i", "s", "m", "a", "t", "c", "h", ":", " ", "e", "x", "p", "e", "c",
              "t", "e", "d", " ">>
                              \o NatToString(Len(headers)) \o <<",", " ", "g", "o", "t", " ">>
                              \o NatToString(Len(Keys(ds[r]))))>>
        ELSE <<>>)
         \o CountIssues(ds, headers, r + 1)

MissingRequired(col) == Issue(0,
    <<"M", "i", "s", "s", "i", "n", "g", " ", "r", "e", "q", "u", "i", "r", "e",
      "d", " ", "c", "o", "l", "u", "m", "n", ":", " ">> \o col)

\* required.forEach(col => ...)
RECURSIVE RequiredIssues(_, _)
RequiredIssues(required, headers) ==
  IF Len(required) = 0 THEN <<>>
  ELSE (IF ~Includes(headers, required[1]) THEN <<MissingRequired(required[1])>>
        ELSE <<>>)
         \o RequiredIssues(Tail(required), headers)

\* val.match(/^[^\s@]+@[^\s@]+\.[^\s@]+$/)
MatchesEmail(s) ==
  \E p \in 1..Len(s), q \in 1..Len(s) :
    /\ s[p] = "@" /\ s[q] = "."
    /\ 1 < p /\ p + 1 < q /\ q < Len(s)
    /\ \A k \in 1..Len(s) : s[k] \notin WhiteSpace /\ (s[k] = "@" => k = p)

\* the type check skips the value: val === undefined || val === ''
NotProvided(val) == val = Undef \/ val = Str(EmptyStr)

\* the body of the loop over Object.entries(types), for one record and entry
EntryIssues(row, r, col, type) ==
  IF NotProvided(ObjGet(row, col)) THEN <<>>
  ELSE IF type = Str(<<"n", "u", "m", "b", "e", "r">>) /\ IsNaN(ParseFloat(ObjGet(row, col)))
  THEN <<Issue(r + 1, col \o
      <<":", " ", "e", "x", "p", "e", "c", "t", "e", "d", " ", "n", "u", "m", "b",
        "e", "r", ",", " ", "g", "o", "t", " ", QUOTE>>
                        \o JSString(ObjGet(row, col)) \o <<QUOTE>>)>>
  ELSE IF type = Str(<<"e", "m", "a", "i", "l">>) /\ ~MatchesEmail(ObjGet(row, col).s)
  THEN <<Issue(r + 1, col \o
      <<":", " ", "i", "n", "v", "a", "l", "i", "d", " ", "e", "m", "a", "i", "l",
        " ", QUOTE>>
                        \o ObjGet(row, col).s \o <<QUOTE>>)>>
  ELSE <<>>

RECURSIVE RowTypeIssues(_, _, _, _)
RowTypeIssues(row, r, types, e) ==
  IF e > Len(types) THEN <<>>
  ELSE EntryIssues(row, r, types[e].k, types[e].v)
         \o RowTypeIssues(row, r, types, e + 1)

\* data.forEach((row, i) => Object.entries(types).forEach(...))
RECURSIVE TypeIssues(_, _, _)
TypeIssues(ds, types, r) ==
  IF r > Len(ds) THEN <<>>
  ELSE RowTypeIssues(ds[r], r, types, 1) \o TypeIssues(ds, types, r + 1)

\* val.match is not a function: an email column holds a value that is
\* provided and is not a string
MatchThrows(ds, types) ==
  \E r \in 1..Len(ds), e \in 1..Len(types) :
    /\ types[e].v = Str(<<"e", "m", "a", "i", "l">>)
    /\ ~NotProvided(ObjGet(ds[r], types[e].k))
    /\ ObjGet(ds[r], types[e].k).t # "string"

\* Date.parse of a string that is not in the ISO format is left to the
\* implementation: a schema with a date column is not among the model's
\* inputs
HasDate(types) == \E e \in 1..Len(types) : types[e].v = Str(<<"d", "a", "t", "e">>)

Reported(iss) == [error |-> "none", issues |-> iss, modelled |-> TRUE]

\* validate, past the test for an empty dataset
ValidateRows(ds, headers, schema) ==
  IF ~schema.given THEN Reported(HeaderIssues(headers, 1) \o CountIssues(ds, headers, 1))
  ELSE IF HasDate(schema.types)
  THEN [error |-> "none", issues |-> <<>>, modelled |-> FALSE]
  ELSE IF MatchThrows(ds, schema.types)
  THEN [error |-> "TypeError", issues |-> <<>>, modelled |-> TRUE]
  ELSE Reported(HeaderIssues(headers, 1) \o CountIssues(ds, headers, 1)
                  \o RequiredIssues(schema.required, headers)
                  \o TypeIssues(ds, schema.types, 1))

ValidateCall(ds, schema) ==
  IF Len(ds) = 0 THEN Reported(<<Issue(0,
      <<"E", "m", "p", "t", "y", " ", "d", "a", "t", "a", "s", "e", "t">>)>>)
  ELSE ValidateRows(ds, Keys(ds[1]), schema)

(***************************************************************************)
(* Row operations applied one after the other to a parsed dataset          *)
(***************************************************************************)
OpsTexts ==
  { <<"a", ",", "b", LF, "1", ",", "2", LF, "1", "a", ",", "x">>,
    <<"a", "(", LF, "1">>,
    <<"a", LF, "1", LF, "2", LF, "3">>,
    <<"b", ",", "a", LF, "x", ",", LF>>,
    <<",", "a", LF, "1", ",", "2">>,
    EmptyStr }

FilterColumns == { <<"a">>, <<"b">> }

FilterOperators ==
  OpNames \cup
    { <<"E", "Q">>, <<"C", "o", "n", "t", "a", "i", "n", "s">>,
      <<"c", "o", "n", "s", "t", "r", "u", "c", "t", "o", "r">>,
      <<"_", "_", "p", "r", "o", "t", "o", "_", "_">>, <<"f", "o", "o">>, EmptyStr }

FilterValues == { Str(<<"1">>), Str(<<"x">>), Str(<<"(">>) }

Expressions ==
  { <<"c", "=", "a", "*", "b">>, <<"c", "=", "a", "+", "b">>,
    <<"a", "=", "a", "+", "1">>, <<"2", "=", "a">>, <<"c", "=", "a", "+">>,
    <<"c", "=", "z", "z">>, <<"c", " ", "=", " ", "b">>, <<"=", "a">>,
    <<"b", "=", "1", "-", "a">> }

MergeTexts == { <<"b", ",", "c", LF, "3", ",", "4">>, <<"1", LF, "5">>, EmptyStr }

RequiredLists == { <<>>, <<<<"a">>>>, <<<<"c">>>>, <<<<"a">>, <<"c">>>>, <<<<"c">>, <<"c">>>> }

TypeMaps ==
  { <<>>,
    <<[k |-> <<"a">>, v |-> Str(<<"n", "u", "m", "b", "e", "r">>)], [k |-> <<"b">>, v |-> Str(<<"e", "m", "a", "i", "l">>)]>> }

Schemas == {NoSchema} \cup {Schema(rq, ty) : rq \in RequiredLists, ty \in TypeMaps}

scanVars == <<text, delimiter, i, field, current, rows, inQuotes>>

InitOps ==
  /\ pc = "ready"
  /\ op = NoArgs("parseCSV")
  /\ text \in OpsTexts
  /\ delimiter = ","
  /\ ScanVarsInit
  /\ data = <<>>
  /\ result = ParseCSV(text, delimiter)
  /\ error = "none"
  /\ nops = 0
  /\ evalExpr = <<>>
  /\ issues = <<>>

\* the call described by call runs on the dataset at hand and returns or
\* raises
Call(call, r) ==
  /\ pc = "ready"
  /\ nops < MaxOps
  /\ r.modelled
  /\ data' = result
  /\ op' = call
  /\ error' = r.error
  /\ result' = IF r.error = "none" THEN r.out ELSE result
  /\ evalExpr' = r.evalExpr
  /\ issues' = <<>>
  /\ pc' = IF r.error = "none" THEN "ready" ELSE "threw"
  /\ nops' = nops + 1
  /\ UNCHANGED scanVars

FilterOp ==
  \E column \in FilterColumns, operator \in FilterOperators, value \in FilterValues :
    Call([NoArgs("filter") EXCEPT !.column = column, !.operator = operator,
                                  !.value = value.s],
         FilterCall(result, column, operator, value))

TransformOp ==
  \E expression \in Expressions :
    Call([NoArgs("transform") EXCEPT !.expression = expression],
         TransformCall(result, expression))

HeadOp ==
  \E n \in 0..MaxN :
    Call([NoArgs("head") EXCEPT !.n = n], Returned(HeadCall(result, n)))

TailOp ==
  \E n \in 0..MaxN :
    Call([NoArgs("tail") EXCEPT !.n = n], Returned(TailCall(result, n)))

MergeOp ==
  \E t \in MergeTexts :
    Call([NoArgs("merge") EXCEPT !.other = ParseCSV(t, ",")],
         Returned(MergeCall(result, ParseCSV(t, ","))))

\* validate(data, schema): the dataset is left as it is
ValidateReturn(schema, r) ==
  /\ pc = "ready"
  /\ nops < MaxOps
  /\ r.modelled
  /\ data' = result
  /\ op' = [NoArgs("validate") EXCEPT !.schema = schema]
  /\ error' = r.error
  /\ issues' = r.issues
  /\ evalExpr' = <<>>
  /\ pc' = IF r.error = "none" THEN "ready" ELSE "threw"
  /\ nops' = nops + 1
  /\ UNCHANGED <<result, scanVars>>

ValidateOp == \E schema \in Schemas : ValidateReturn(schema, ValidateCall(result, schema))

NextOps == FilterOp \/ TransformOp \/ HeadOp \/ TailOp \/ MergeOp \/ ValidateOp

SpecOps == InitOps /\ [][NextOps]_vars

(***************************************************************************)
(* Properties of the row operations                                        *)
(***************************************************************************)
IsCall(name) == op.name = name /\ nops > 0

\* C5: for an expression that matches <identifier> = <body>, transform
\* returns a dataset and never raises; a record whose evaluation raises gets
\* the empty string in the derived column, the others their computed value.
C5_TransformNeverFails ==
  (IsCall("transform") /\ MatchExpression(op.expression).ok)
  => /\ error = "none"
     /\ Len(result) = Len(data)
     /\ \A r \in 1..Len(data) :
          LET ev == Eval(evalExpr[r])
              derived == ObjGet(result[r], MatchExpression(op.expression).newCol)
          IN IF ev.kind = "throw" THEN derived = Str(EmptyStr) ELSE derived = ev.v

\* C6: after any sequence of filter, transform, merge, head and tail on a
\* parsed dataset, every field value of every record is a string.
C6_AllValuesStrings == (pc = "ready") => AllStrings(result)

\* C7: each column referenced as a whole word in the body is replaced by a
\* numeric literal when its value parses fully as a number, and by the value
\* in double quotes otherwise (so for a value numeric only in a prefix).
C7_FullyNumeric(s) ==
  LET signed == Len(s) > 0 /\ s[1] \in {"+", "-"}
      body == IF signed THEN Tail(s) ELSE s
  IN Len(body) > 0 /\ \A k \in 1..Len(body) : IsDigit(body[k])

C7_Literal(v) ==
  LET s == JSString(v)
  IN IF C7_FullyNumeric(s) THEN JSString(ToNumber(Str(s)))
     ELSE <<QUOTE>> \o s \o <<QUOTE>>

RECURSIVE C7_Substitute(_, _)
C7_Substitute(row, body) ==
  IF Len(body) = 0 THEN EmptyStr
  ELSE IF ~IsWordChar(body[1]) THEN <<body[1]>> \o C7_Substitute(row, Tail(body))
  ELSE LET n == WordPrefixLen(body)
           word == SubSeq(body, 1, n)
       IN (IF HasKey(row, word) THEN C7_Literal(ObjGet(row, word)) ELSE word)
            \o C7_Substitute(row, Drop(body, n))

C7_LiteralRendering ==
  (IsCall("transform") /\ error = "none")
  => \A r \in 1..Len(data) :
       evalExpr[r] = C7_Substitute(data[r], MatchExpression(op.expression).expr)

\* C8: transform keeps the number and order of the records and the value and
\* position of every other column, adds the new column at the end when it is
\* absent and overwrites it in place when it exists.
C8_TransformFrame ==
  (IsCall("transform") /\ error = "none")
  => LET newCol == MatchExpression(op.expression).newCol
     IN /\ Len(result) = Len(data)
        /\ \A r \in 1..Len(data) :
             /\ Keys(result[r]) = IF HasKey(data[r], newCol) THEN Keys(data[r])
                                  ELSE Keys(data[r]) \o <<newCol>>
             /\ \A j \in 1..Len(data[r]) :
                  data[r][j].k # newCol => result[r][j] = data[r][j]

\* C9: an operator that is none of the twelve names (letter case aside, as
\* filter lower-cases it) makes filter raise the unknown-operator error and
\* return nothing.
C9_UnknownOperator ==
  (IsCall("filter") /\ ToLowerCase(op.operator) \notin OpNames)
  => (pc = "threw" /\ error = "UnknownOperator")

\* C10: head returns the first min(n, |D|) records and tail the last
\* min(n, |D|) records, in order, for every n >= 0.
C10_Min(a, b) == IF a < b THEN a ELSE b

C10_HeadTailClamp ==
  LET k == C10_Min(op.n, Len(data))
  IN /\ IsCall("head")
          => (error = "none" /\ result = [j \in 1..k |-> data[j]])
     /\ IsCall("tail")
          => (error = "none" /\ result = [j \in 1..k |-> data[Len(data) - k + j]])

(***************************************************************************)
(* Properties of the record mapper                                         *)
(***************************************************************************)
Names(header) == {header[j] : j \in 1..Len(header)}

Occurrences(header, name) == Cardinality({j \in 1..Len(header) : header[j] = name})

PlainHeader(header) ==
  \A j \in 1..Len(header) :
    Occurrences(header, header[j]) = 1 /\ ~IsArrayIndex(header[j])

\* the record made of one data row: its columns are the header's names, a
\* column past the end of the row holds '', a column the row has a field for
\* holds that field, and nothing of the row past the header is kept
C13_Record(header, row, rec) ==
  /\ {rec[j].k : j \in 1..Len(rec)} = Names(header)
  /\ Len(rec) = Cardinality(Names(header))
  /\ PlainHeader(header) => Keys(rec) = header
  /\ \A j \in 1..Len(header) :
       /\ j > Len(row) => ObjGet(rec, header[j]) = Str(EmptyStr)
       /\ (j <= Len(row) /\ Occurrences(header, header[j]) = 1)
            => ObjGet(rec, header[j]) = Str(row[j])

\* C13: when parseCSV has returned, an input with no row has given the empty
\* dataset; otherwise there is one record per data row, in order, each with
\* exactly the columns of the first row, '' in every column the data row was
\* too short for, and the fields of a longer data row past the header
\* dropped.
C13_PadDrop ==
  pc = "done" =>
    /\ Len(rows) = 0 => result = <<>>
    /\ Len(rows) > 0 =>
         /\ Len(result) = Len(rows) - 1
         /\ \A r \in 1..Len(result) : C13_Record(rows[1], rows[r + 1], result[r])

\* a header of two columns with one data row of one field and one of three
C13_Witness ==
  /\ pc = "done"
  /\ op.name = "parseCSV"
  /\ Len(rows) = 3
  /\ Len(rows[1]) = 2 /\ Len(rows[2]) = 1 /\ Len(rows[3]) = 3
  /\ result = << <<[k |-> <<"a">>, v |-> Str(<<"1">>)], [k |-> <<"b">>, v |-> Str(EmptyStr)]>>,
                 <<[k |-> <<"a">>, v |-> Str(<<"1">>)], [k |-> <<"b">>, v |-> Str(<<"2">>)]>> >>

\* the columns of a dataset: the keys of its first record
Columns(ds) == IF Len(ds) > 0 THEN Keys(ds[1]) ELSE <<>>

\* A's columns in order, then the columns of B that A does not have
UnionHeader(A, B) ==
  Columns(A) \o SelectSeq(Columns(B), LAMBDA h : ~Includes(Columns(A), h))

\* a record of the result: keyed by the union header, its own values kept,
\* '' in every column it did not have
C12_Record(header, src, rec) ==
  /\ Keys(rec) = header
  /\ \A j \in 1..Len(header) :
       ObjGet(rec, header[j]) =
         IF HasKey(src, header[j]) THEN ObjGet(src, header[j]) ELSE Str(EmptyStr)

\* C12: merge(A, B) returns |A| + |B| records, A's first and then B's, each in
\* its original order; every record is keyed by A's columns in order followed
\* by the columns of B that are not in A, keeps its own values and has '' in
\* every column it did not have.
C12_MergeUnion ==
  IsCall("merge") =>
    /\ error = "none"
    /\ Len(result) = Len(data) + Len(op.other)
    /\ \A r \in 1..Len(result) :
         C12_Record(UnionHeader(data, op.other),
                    IF r <= Len(data) THEN data[r] ELSE op.other[r - Len(data)],
                    result[r])

\* C11: when validate has returned for a schema, every column named in the
\* schema's required list that is not in the dataset's header has exactly one
\* issue with row 0 whose message names it, and a required column that is in
\* the header has none.
C11_RequiredColumns ==
  (IsCall("validate") /\ op.schema.given /\ error = "none") =>
    \A j \in 1..Len(op.schema.required) :
      Cardinality({k \in 1..Len(issues) :
                     issues[k] = MissingRequired(op.schema.required[j])})
        = IF Includes(Columns(data), op.schema.required[j]) THEN 0 ELSE 1

====
